---- MODULE Spec2Model ----
(***************************************************************************)
(* ClassGuard sensor node (esp32_code/classguard_sensors.ino, config.h).   *)
(*                                                                         *)
(* The firmware is one thread: setup(), then loop() for ever.  Spec is the *)
(* main loop with its connect-retry, message dispatch, time-gated publish  *)
(* and auto-control steps; FairSpec adds that the thread keeps running.    *)
(* SpecCmd and SpecPublish run one step of the loop (the message dispatch, *)
(* the publish check) on all the inputs the loop is too large to be run    *)
(* with; SpecScore and SpecAqi call one function over its input range.     *)
(*                                                                         *)
(* Numbers.  C floats are modelled by integers: temperature, humidity,     *)
(* lux and ppm in whole units (every comparison of the code is against an  *)
(* integer threshold), NaN by a value outside every sensor range that the  *)
(* comparison operators test for first.  The noise level is the decibel    *)
(* value rounded up to a whole dB, which keeps "noise > N" exact for an    *)
(* integer N.  The millisecond clock is kept in ms, read with granularity  *)
(* TickMs, and wraps at ClockMod (2^32 ms in the firmware).                *)
(***************************************************************************)
EXTENDS Integers, Sequences, FiniteSets, TLC

----------------------------------------------------------------------------
(* config.h *)

CO2_THRESHOLD == 1000
LUX_THRESHOLD == 300
TEMP_THRESHOLD == 35
HUMIDITY_THRESHOLD == 80
NOISE_THRESHOLD == 70

(* classguard_sensors.ino *)

publishInterval == 5000      \* ms
RetryDelayMs == 2000         \* delay(2000) in connectMQTT
LoopDelayMs == 100           \* delay(100) at the end of loop()
AdcMax == 4095               \* 12-bit analogRead
PpmMin == 300
PpmMax == 10000
NoiseMin == 30
NoiseMax == 120
ScoreStart == 100
Co2Penalty == 20
TempPenalty == 15
HumidityPenalty == 10
LuxPenalty == 15
NoisePenalty == 20

LOW == 0
HIGH == 1

\* What dht.readTemperature()/readHumidity() return when the read fails.
NaN == -9999

----------------------------------------------------------------------------
(* Bounds of the model *)

TickMs == 1000        \* granularity with which the clock is observed, in ms
ClockTicks == 8       \* the clock wraps after ClockTicks ticks
MaxAttempts == 3      \* the failed-attempt counter saturates here
MaxPpmArg == 2100     \* largest ppm handed to calculateAQI on its own

ClockMod == ClockTicks * TickMs

----------------------------------------------------------------------------
(* Float comparisons: every comparison with a NaN operand is false. *)

isnan(x) == x = NaN

GT(a, b) == ~isnan(a) /\ ~isnan(b) /\ a > b

LT(a, b) == ~isnan(a) /\ ~isnan(b) /\ a < b

Max(a, b) == IF a > b THEN a ELSE b

Min(a, b) == IF a < b THEN a ELSE b

\* constrain(amt, low, high): ((amt)<(low)?(low):((amt)>(high)?(high):(amt)))
constrain(amt, low, high) == IF amt < low THEN low ELSE IF amt > high THEN high ELSE amt

\* long map(long x, long in_min, long in_max, long out_min, long out_max):
\* integer arithmetic, the division truncates (all operands are >= 0 here).
map(x, in_min, in_max, out_min, out_max) ==
    ((x - in_min) * (out_max - out_min)) \div (in_max - in_min) + out_min

----------------------------------------------------------------------------
(* Derived metrics *)

calculateAQI_LE(co2) ==
    IF co2 <= 600 THEN 0
    ELSE IF co2 <= 1000 THEN 1
    ELSE IF co2 <= 1500 THEN 2
    ELSE IF co2 <= 2000 THEN 3
    ELSE 4

calculateAQI(co2) ==
    IF co2 < 600 THEN 0
    ELSE IF co2 < 1000 THEN 1
    ELSE IF co2 < 1500 THEN 2
    ELSE IF co2 < 2000 THEN 3
    ELSE 4

\* 1000 * 10^(j/20) for j = 0..19: one decade of the decibel scale.
DecibelSteps ==
    << 1000, 1122, 1259, 1413, 1585, 1778, 1995, 2239, 2512, 2818,
       3162, 3548, 3981, 4467, 5012, 5623, 6310, 7079, 7943, 8913 >>

RECURSIVE Pow10(_)
Pow10(n) == IF n = 0 THEN 1 ELSE 10 * Pow10(n - 1)

\* 20 * log10(ratio) <= k, for ratio given in hundredths and k >= 0.
DecibelAtMost(ratio100, k) ==
    ratio100 * 10 <= Pow10(k \div 20) * DecibelSteps[(k % 20) + 1]

\* 20 * log10(ratio) rounded up to a whole dB, for ratio in hundredths; a
\* value below lo (log10(0) = -infinity among them) is given as lo - 1, one
\* above hi as hi + 1.
Decibels(ratio100, lo, hi) ==
    IF DecibelAtMost(ratio100, lo - 1) THEN lo - 1
    ELSE IF ~DecibelAtMost(ratio100, hi) THEN hi + 1
    ELSE CHOOSE k \in lo..hi :
             DecibelAtMost(ratio100, k) /\ ~DecibelAtMost(ratio100, k - 1)

\* voltage = micValue * (3.3 / 4095.0), in units of 10 microvolts;
\* noiseDB = 20 * log10(voltage / 0.00631);
\* return constrain(noiseDB, 30, 120).
calculateNoiseLevel(micValue) ==
    LET voltage == (micValue * 330000) \div AdcMax
        ratio100 == (voltage * 100) \div 631
        noiseDB == Decibels(ratio100, NoiseMin, NoiseMax)
    IN  constrain(noiseDB, NoiseMin, NoiseMax)

calculateClassScore_NoHumidity(co2, temp, humidity, lux, noise) ==
    LET s1 == ScoreStart - (IF GT(co2, CO2_THRESHOLD) THEN Co2Penalty ELSE 0)
        s2 == s1 - (IF GT(temp, TEMP_THRESHOLD) THEN TempPenalty ELSE 0)
        s4 == s2 - (IF LT(lux, LUX_THRESHOLD) THEN LuxPenalty ELSE 0)
        s5 == s4 - (IF GT(noise, NOISE_THRESHOLD) THEN NoisePenalty ELSE 0)
    IN  Max(s5, 0)

calculateClassScore(co2, temp, humidity, lux, noise) ==
    LET s1 == ScoreStart - (IF GT(co2, CO2_THRESHOLD) THEN Co2Penalty ELSE 0)
        s2 == s1 - (IF GT(temp, TEMP_THRESHOLD) THEN TempPenalty ELSE 0)
        s3 == s2 - (IF GT(humidity, HUMIDITY_THRESHOLD) THEN HumidityPenalty ELSE 0)
        s4 == s3 - (IF LT(lux, LUX_THRESHOLD) THEN LuxPenalty ELSE 0)
        s5 == s4 - (IF GT(noise, NOISE_THRESHOLD) THEN NoisePenalty ELSE 0)
    IN  Max(s5, 0)

getStatusMessage(score) ==
    IF score >= 80 THEN "Excellent"
    ELSE IF score >= 60 THEN "Good"
    ELSE IF score >= 40 THEN "Fair"
    ELSE "Poor"

----------------------------------------------------------------------------
(* Inbound command messages and the actuator pins *)

Keys == {"fan", "light", "buzzer"}

\* A JSON member: absent from the document, or one of these values.
Absent == "absent"
JsonVals == {"true", "false", "null", "0", "1", "text"}

\* doc["k"] used as a condition (ArduinoJson as<bool>): false and null are
\* false, a number is true iff it is not 0, a string is true.
Truthy(v) == v \in {"true", "1", "text"}

NoBody == [k \in Keys |-> Absent]

\* kind "none": no packet; "bad": deserializeJson returns an error;
\* "json": decoded, body gives the members fan/light/buzzer.
NoMsg == [kind |-> "none", body |-> NoBody]
BadMsg == [kind |-> "bad", body |-> NoBody]
JsonMsg(b) == [kind |-> "json", body |-> b]

AllMsgs == {BadMsg} \cup {JsonMsg(b) : b \in [Keys -> JsonVals \cup {Absent}]}

LoopMsgs ==
    { BadMsg,
      JsonMsg([NoBody EXCEPT !["fan"] = "true"]),
      JsonMsg([NoBody EXCEPT !["fan"] = "false", !["light"] = "true"]),
      JsonMsg([NoBody EXCEPT !["light"] = "false", !["buzzer"] = "true"]),
      JsonMsg([NoBody EXCEPT !["buzzer"] = "false"]) }

containsKey(m, k) == m.body[k] # Absent

PinNames == {"RELAY_FAN", "RELAY_LIGHT", "BUZZER_PIN"}

digitalWrite(p, name, level) == [p EXCEPT ![name] = level]

controlDevices_AbsentOff(p, m) ==
    IF m.kind # "json" THEN p
    ELSE [p EXCEPT !["RELAY_FAN"] = IF Truthy(m.body["fan"]) THEN LOW ELSE HIGH,
                   !["RELAY_LIGHT"] = IF Truthy(m.body["light"]) THEN LOW ELSE HIGH,
                   !["BUZZER_PIN"] = IF Truthy(m.body["buzzer"]) THEN HIGH ELSE LOW]

controlDevices_BadResets(p, m) ==
    IF m.kind # "json"
    THEN [p EXCEPT !["RELAY_FAN"] = HIGH, !["RELAY_LIGHT"] = HIGH, !["BUZZER_PIN"] = LOW]
    ELSE [x \in PinNames |->
            IF x = "RELAY_FAN" /\ m.body["fan"] # Absent
              THEN (IF Truthy(m.body["fan"]) THEN LOW ELSE HIGH)
            ELSE IF x = "RELAY_LIGHT" /\ m.body["light"] # Absent
              THEN (IF Truthy(m.body["light"]) THEN LOW ELSE HIGH)
            ELSE IF x = "BUZZER_PIN" /\ m.body["buzzer"] # Absent
              THEN (IF Truthy(m.body["buzzer"]) THEN HIGH ELSE LOW)
            ELSE p[x]]

\* controlDevices(message) on pin levels p: the pin levels it leaves.
controlDevices(p, m) ==
    IF m.kind # "json" THEN p
    ELSE LET p1 == IF containsKey(m, "fan")
                   THEN digitalWrite(p, "RELAY_FAN",
                                     IF Truthy(m.body["fan"]) THEN LOW ELSE HIGH)
                   ELSE p
             p2 == IF containsKey(m, "light")
                   THEN digitalWrite(p1, "RELAY_LIGHT",
                                     IF Truthy(m.body["light"]) THEN LOW ELSE HIGH)
                   ELSE p1
         IN  IF containsKey(m, "buzzer")
             THEN digitalWrite(p2, "BUZZER_PIN",
                               IF Truthy(m.body["buzzer"]) THEN HIGH ELSE LOW)
             ELSE p2

----------------------------------------------------------------------------
(* Sensor inputs the model draws from *)

MqSamples == {0, AdcMax}
TempSamples == {NaN, TEMP_THRESHOLD, TEMP_THRESHOLD + 1}
HumiditySamples == {NaN, HUMIDITY_THRESHOLD, HUMIDITY_THRESHOLD + 1}
LuxSamples == {LUX_THRESHOLD - 1, LUX_THRESHOLD}
MicSamples == {0, AdcMax}

\* The sensor values one publish cycle may read: all samples, and the few the
\* main loop is run with.
AllSamples ==
    [mq |-> MqSamples, temp |-> TempSamples, humidity |-> HumiditySamples,
     lux |-> LuxSamples, mic |-> MicSamples]

LoopSamples ==
    [mq |-> {AdcMax}, temp |-> {NaN, TEMP_THRESHOLD + 1},
     humidity |-> {HUMIDITY_THRESHOLD + 1}, lux |-> {LUX_THRESHOLD - 1},
     mic |-> {AdcMax}]

\* The telemetry document: a function from the keys present to their values.
NoDoc == [k \in {} |-> 0]

\* readSensors, the MQ135 part: map of the raw value, calculateAQI.
readGas(mq135Value) ==
    LET co2_ppm == map(mq135Value, 0, AdcMax, PpmMin, PpmMax)
    IN  [co2 |-> co2_ppm, aqi |-> calculateAQI(co2_ppm)]

readSensors_NanAsZero(mq135Value, temp, humidity, lux, micValue) ==
    LET co2_ppm == map(mq135Value, 0, AdcMax, PpmMin, PpmMax)
        noiseDB == calculateNoiseLevel(micValue)
        score   == calculateClassScore(co2_ppm, temp, humidity, lux, noiseDB)
    IN  [co2 |-> co2_ppm, aqi |-> calculateAQI(co2_ppm),
         temperature |-> IF isnan(temp) THEN 0 ELSE temp,
         humidity |-> IF isnan(humidity) THEN 0 ELSE humidity,
         light |-> lux, noise |-> noiseDB,
         class_score |-> score, status |-> getStatusMessage(score)]

\* readSensors(doc): the members it sets.
readSensors(mq135Value, temp, humidity, lux, micValue) ==
    LET gas     == readGas(mq135Value)
        noiseDB == calculateNoiseLevel(micValue)
        score   == calculateClassScore(gas.co2, temp, humidity, lux, noiseDB)
        always  == [co2 |-> gas.co2, aqi |-> gas.aqi,
                    light |-> lux, noise |-> noiseDB,
                    class_score |-> score, status |-> getStatusMessage(score)]
        t       == IF ~isnan(temp) THEN [temperature |-> temp] ELSE NoDoc
        h       == IF ~isnan(humidity) THEN [humidity |-> humidity] ELSE NoDoc
    IN  always @@ t @@ h

----------------------------------------------------------------------------
(* State *)

VARIABLES
    pc,           \* where the thread is: "top", "connect", "mqtt", "publish",
                  \* "auto", "delay" in loop(); "call"/"done" for one function
    connected,    \* mqttClient.connected()
    subscribed,   \* the command topic is subscribed on the present connection
    attempts,     \* failed connect attempts of the present connectMQTT call
    pin,          \* output level of RELAY_FAN, RELAY_LIGHT, BUZZER_PIN
    now,          \* millis()
    lastPublish,
    lastTry,      \* clock value of the latest publish attempt, -1 before it
    msg,          \* the message dispatched in this iteration
    prev,         \* pin levels when the callback was entered
    doc,          \* the document publishSensorData built in this iteration
    pubOk,        \* what mqttClient.publish returned for it
    pubIn,        \* what readSensors read for it
    rd,           \* what autoControlDevices read in this iteration
    tones,        \* tone() calls of this iteration
    arg,          \* argument of the function called (function specifications)
    ret           \* its result

vars == << pc, connected, subscribed, attempts, pin, now, lastPublish, lastTry,
           msg, prev, doc, pubOk, pubIn, rd, tones, arg, ret >>

NoRead == [valid |-> FALSE, temp |-> 0, lux |-> 0, micValue |-> 0, noise |-> 0]

NoInput == [mq |-> 0, temp |-> 0, humidity |-> 0, lux |-> 0, mic |-> 0]

NoArg == [fn |-> "loop"]

\* Pin levels setup() writes: both relays off (active low), buzzer low.
SetupPins == [x \in PinNames |-> IF x = "BUZZER_PIN" THEN LOW ELSE HIGH]

\* Clock values the model observes.
ClockValues == {t * TickMs : t \in 0..(ClockTicks - 1)}

\* Clock ticks that pass during delay(ms): the delay rounded down or up.
Elapsed(ms) == {(ms \div TickMs) * TickMs, ((ms + TickMs - 1) \div TickMs) * TickMs}

\* Everything but the clock and the position, as setup() leaves it.
SetupState ==
    /\ connected = TRUE
    /\ subscribed = TRUE
    /\ attempts = 0
    /\ pin = SetupPins
    /\ lastPublish = 0
    /\ lastTry = -1
    /\ msg = NoMsg
    /\ prev = SetupPins
    /\ doc = NoDoc
    /\ pubOk = FALSE
    /\ pubIn = NoInput
    /\ rd = NoRead
    /\ tones = 0

\* setup() has returned; it took any amount of time (the WiFi wait).
Init ==
    /\ SetupState
    /\ pc = "top"
    /\ now \in ClockValues
    /\ arg = NoArg
    /\ ret = NoArg

----------------------------------------------------------------------------
(* loop() *)

\* The broker or the network drops the connection.
LinkDown ==
    /\ pc \in {"top", "connect", "mqtt", "publish", "auto", "delay"}
    /\ connected
    /\ connected' = FALSE
    /\ subscribed' = FALSE
    /\ UNCHANGED << pc, attempts, pin, now, lastPublish, lastTry, msg, prev, doc,
                    pubOk, pubIn, rd, tones, arg, ret >>

\* if (!mqttClient.connected()) connectMQTT();
LoopTop ==
    /\ pc = "top"
    /\ pc' = IF connected THEN "mqtt" ELSE "connect"
    /\ attempts' = 0
    /\ UNCHANGED << connected, subscribed, pin, now, lastPublish, lastTry, msg,
                    prev, doc, pubOk, pubIn, rd, tones, arg, ret >>

\* connectMQTT: mqttClient.connect succeeds, then subscribe.
ConnectOk ==
    /\ pc = "connect"
    /\ ~connected
    /\ connected' = TRUE
    /\ subscribed' = TRUE
    /\ UNCHANGED << pc, attempts, pin, now, lastPublish, lastTry, msg, prev, doc,
                    pubOk, pubIn, rd, tones, arg, ret >>

\* connectMQTT: mqttClient.connect fails, delay(2000), next round.
ConnectFail_GivesUp ==
    /\ pc = "connect"
    /\ ~connected
    /\ \E d \in Elapsed(RetryDelayMs) : now' = (now + d) % ClockMod
    /\ attempts' = Min(attempts + 1, MaxAttempts)
    /\ pc' = IF attempts + 1 >= MaxAttempts THEN "mqtt" ELSE pc
    /\ UNCHANGED << connected, subscribed, pin, lastPublish, lastTry, msg, prev,
                    doc, pubOk, pubIn, rd, tones, arg, ret >>

ConnectFail ==
    /\ pc = "connect"
    /\ ~connected
    /\ \E d \in Elapsed(RetryDelayMs) : now' = (now + d) % ClockMod
    /\ attempts' = Min(attempts + 1, MaxAttempts)
    /\ UNCHANGED << pc, connected, subscribed, pin, lastPublish, lastTry, msg,
                    prev, doc, pubOk, pubIn, rd, tones, arg, ret >>

\* connectMQTT: while (!mqttClient.connected()) ends.
ConnectReturn ==
    /\ pc = "connect"
    /\ connected
    /\ pc' = "mqtt"
    /\ attempts' = 0
    /\ UNCHANGED << connected, subscribed, pin, now, lastPublish,
                    lastTry, msg, prev, doc, pubOk, pubIn, rd, tones, arg, ret >>

\* mqttClient.loop() with no packet to read (or no connection).
MqttIdle ==
    /\ pc = "mqtt"
    /\ pc' = "publish"
    /\ UNCHANGED << connected, subscribed, attempts, pin, now, lastPublish,
                    lastTry, msg, prev, doc, pubOk, pubIn, rd, tones, arg, ret >>

\* mqttClient.loop() reads one packet of the command topic and calls the
\* callback, which calls controlDevices on the payload.
MqttDispatch(M) ==
    /\ pc = "mqtt"
    /\ connected
    /\ subscribed
    /\ \E m \in M :
         /\ msg' = m
         /\ prev' = pin
         /\ pin' = controlDevices(pin, m)
    /\ pc' = "publish"
    /\ UNCHANGED << connected, subscribed, attempts, now, lastPublish, lastTry,
                    doc, pubOk, pubIn, rd, tones, arg, ret >>

\* now - lastPublish >= publishInterval, in unsigned long arithmetic.
PublishDue(t, last) == ((t - last) % ClockMod) >= publishInterval

\* lastPublish = now, after publishSensorData whatever it returned.
NextLastPublish_OnSuccess(t, last, ok) == IF ok THEN t ELSE last

NextLastPublish(t, last, ok) == t

\* publishSensorData(): the document it serializes.
publishSensorData(mq135Value, temp, humidity, lux, micValue, t) ==
    readSensors(mq135Value, temp, humidity, lux, micValue)
        @@ [timestamp |-> t, device_id |-> "ESP32_CLASSGUARD_"]

\* if (now - lastPublish >= publishInterval) { publishSensorData(); lastPublish = now; }
PublishStep(S) ==
    /\ pc = "publish"
    /\ IF PublishDue(now, lastPublish)
       THEN \E mq \in S.mq, t \in S.temp, h \in S.humidity,
               l \in S.lux, mic \in S.mic,
               ok \in (IF connected THEN BOOLEAN ELSE {FALSE}) :
              /\ doc' = publishSensorData(mq, t, h, l, mic, now)
              /\ pubOk' = ok
              /\ pubIn' = [mq |-> mq, temp |-> t, humidity |-> h, lux |-> l,
                           mic |-> mic]
              /\ lastPublish' = NextLastPublish(now, lastPublish, ok)
              /\ lastTry' = now
       ELSE UNCHANGED << doc, pubOk, pubIn, lastPublish, lastTry >>
    /\ pc' = "auto"
    /\ UNCHANGED << connected, subscribed, attempts, pin, now, msg, prev, rd,
                    tones, arg, ret >>

autoControlPins_EdgeTriggered(p, temp, lux) ==
    LET p1 == IF GT(temp, TEMP_THRESHOLD)
              THEN digitalWrite(p, "RELAY_FAN", LOW) ELSE p
    IN  IF LT(lux, LUX_THRESHOLD)
        THEN digitalWrite(p1, "RELAY_LIGHT", LOW) ELSE p1

\* autoControlDevices: the fan and light levels it writes.
autoControlPins(p, temp, lux) ==
    LET p1 == IF GT(temp, TEMP_THRESHOLD)
              THEN digitalWrite(p, "RELAY_FAN", LOW)
              ELSE digitalWrite(p, "RELAY_FAN", HIGH)
    IN  IF LT(lux, LUX_THRESHOLD)
        THEN digitalWrite(p1, "RELAY_LIGHT", LOW)
        ELSE digitalWrite(p1, "RELAY_LIGHT", HIGH)

autoTones_Always(noise) == 1

\* autoControlDevices: tone(BUZZER_PIN, 1000, 1000) calls it makes.
autoTones(noise) == IF GT(noise, NOISE_THRESHOLD) THEN 1 ELSE 0

autoControlDevices_CommandWins ==
    /\ pc = "auto"
    /\ \E t \in TempSamples, l \in LuxSamples, mic \in MicSamples :
         LET noise == calculateNoiseLevel(mic)
             auto == autoControlPins(pin, t, l)
         IN  /\ rd' = [valid |-> TRUE, temp |-> t, lux |-> l, micValue |-> mic,
                       noise |-> noise]
             /\ pin' = [x \in PinNames |->
                           IF \/ x = "RELAY_FAN" /\ containsKey(msg, "fan")
                              \/ x = "RELAY_LIGHT" /\ containsKey(msg, "light")
                           THEN pin[x] ELSE auto[x]]
             /\ tones' = tones + autoTones(noise)
    /\ doc' = NoDoc
    /\ pubOk' = FALSE
    /\ pubIn' = NoInput
    /\ prev' = SetupPins
    /\ pc' = "delay"
    /\ UNCHANGED << connected, subscribed, attempts, now, lastPublish, lastTry,
                    msg, arg, ret >>

\* autoControlDevices(): reads the sensors, writes fan and light, may call tone.
autoControlDevices ==
    /\ pc = "auto"
    /\ \E t \in TempSamples, l \in LuxSamples, mic \in MicSamples :
         LET noise == calculateNoiseLevel(mic)
         IN  /\ rd' = [valid |-> TRUE, temp |-> t, lux |-> l, micValue |-> mic,
                       noise |-> noise]
             /\ pin' = autoControlPins(pin, t, l)
             /\ tones' = tones + autoTones(noise)
    /\ doc' = NoDoc
    /\ pubOk' = FALSE
    /\ pubIn' = NoInput
    /\ prev' = SetupPins
    /\ pc' = "delay"
    /\ UNCHANGED << connected, subscribed, attempts, now, lastPublish, lastTry,
                    msg, arg, ret >>

\* delay(100); loop() returns and is called again.
Delay ==
    /\ pc = "delay"
    /\ \E d \in Elapsed(LoopDelayMs) : now' = (now + d) % ClockMod
    /\ pc' = "top"
    /\ msg' = NoMsg
    /\ rd' = NoRead
    /\ tones' = 0
    /\ UNCHANGED << connected, subscribed, attempts, pin, lastPublish, lastTry,
                    prev, doc, pubOk, pubIn, arg, ret >>

Next ==
    \/ LinkDown
    \/ LoopTop
    \/ ConnectOk
    \/ ConnectFail
    \/ ConnectReturn
    \/ MqttIdle
    \/ MqttDispatch(LoopMsgs)
    \/ PublishStep(LoopSamples)
    \/ autoControlDevices
    \/ Delay

Spec == Init /\ [][Next]_vars

\* The firmware keeps executing: the thread always takes its next step.
Step ==
    \/ LoopTop
    \/ ConnectOk
    \/ ConnectFail
    \/ ConnectReturn
    \/ MqttIdle
    \/ MqttDispatch(LoopMsgs)
    \/ PublishStep(LoopSamples)
    \/ autoControlDevices
    \/ Delay

\* The broker accepts a connection: of the attempts connectMQTT goes on
\* making one succeeds, and of the connections it goes on getting one is
\* still up when the while condition is evaluated.
BrokerAccepts == SF_vars(ConnectOk) /\ SF_vars(ConnectReturn)

FairSpec == Spec /\ WF_vars(Step)

----------------------------------------------------------------------------
(* One inbound message, from every state of the pins *)

InitCmd ==
    /\ connected = TRUE
    /\ subscribed = TRUE
    /\ attempts = 0
    /\ pin \in [PinNames -> {LOW, HIGH}]
    /\ lastPublish = 0
    /\ lastTry = -1
    /\ msg = NoMsg
    /\ prev = SetupPins
    /\ doc = NoDoc
    /\ pubOk = FALSE
    /\ pubIn = NoInput
    /\ rd = NoRead
    /\ tones = 0
    /\ pc = "mqtt"
    /\ now = 0
    /\ arg = NoArg
    /\ ret = NoArg

NextCmd == MqttDispatch(AllMsgs)

SpecCmd == InitCmd /\ [][NextCmd]_vars

----------------------------------------------------------------------------
(* One publish check, with every sample of the sensors *)

InitPublish ==
    /\ SetupState
    /\ pc = "publish"
    /\ now \in ClockValues
    /\ arg = NoArg
    /\ ret = NoArg

NextPublish == PublishStep(AllSamples)

SpecPublish == InitPublish /\ [][NextPublish]_vars

----------------------------------------------------------------------------
(* calculateClassScore on its own *)

Co2Args == {PpmMin, CO2_THRESHOLD, CO2_THRESHOLD + 1, PpmMax}
TempArgs == {NaN, 0, TEMP_THRESHOLD, TEMP_THRESHOLD + 1}
HumidityArgs == {NaN, HUMIDITY_THRESHOLD, HUMIDITY_THRESHOLD + 1}
LuxArgs == {0, LUX_THRESHOLD - 1, LUX_THRESHOLD}
NoiseArgs == {NoiseMin, NOISE_THRESHOLD, NOISE_THRESHOLD + 1, NoiseMax}

InitScore ==
    /\ SetupState
    /\ pc = "call"
    /\ now = 0
    /\ arg \in [fn : {"calculateClassScore"}, co2 : Co2Args, temp : TempArgs,
                humidity : HumidityArgs, lux : LuxArgs, noise : NoiseArgs]
    /\ ret = NoArg

ScoreCall ==
    /\ pc = "call"
    /\ arg.fn = "calculateClassScore"
    /\ ret' = [fn |-> "calculateClassScore",
               score |-> calculateClassScore(arg.co2, arg.temp, arg.humidity,
                                             arg.lux, arg.noise)]
    /\ pc' = "done"
    /\ UNCHANGED << connected, subscribed, attempts, pin, now, lastPublish,
                    lastTry, msg, prev, doc, pubOk, pubIn, rd, tones, arg >>

SpecScore == InitScore /\ [][ScoreCall]_vars

----------------------------------------------------------------------------
(* The gas reading: map and calculateAQI *)

InitAqi ==
    /\ SetupState
    /\ pc = "call"
    /\ now = 0
    /\ \/ arg \in [fn : {"readGas"}, x : 0..AdcMax]
       \/ arg \in [fn : {"calculateAQI"}, x : 0..MaxPpmArg]
    /\ ret = NoArg

GasCall ==
    /\ pc = "call"
    /\ arg.fn = "readGas"
    /\ ret' = readGas(arg.x)
    /\ pc' = "done"
    /\ UNCHANGED << connected, subscribed, attempts, pin, now, lastPublish,
                    lastTry, msg, prev, doc, pubOk, pubIn, rd, tones, arg >>

AqiCall ==
    /\ pc = "call"
    /\ arg.fn = "calculateAQI"
    /\ ret' = [co2 |-> arg.x, aqi |-> calculateAQI(arg.x)]
    /\ pc' = "done"
    /\ UNCHANGED << connected, subscribed, attempts, pin, now, lastPublish,
                    lastTry, msg, prev, doc, pubOk, pubIn, rd, tones, arg >>

NextAqi == GasCall \/ AqiCall

SpecAqi == InitAqi /\ [][NextAqi]_vars

----------------------------------------------------------------------------
(* Properties *)

\* The pin a command key drives, and the level that switches the device on
\* (the relays are active low, the buzzer pin is active high).
PinOf(k) == IF k = "fan" THEN "RELAY_FAN"
            ELSE IF k = "light" THEN "RELAY_LIGHT" ELSE "BUZZER_PIN"

OnLevel(k) == IF k = "buzzer" THEN HIGH ELSE LOW

IsOn(p, k) == p[PinOf(k)] = OnLevel(k)

Attempted(d) == DOMAIN d # {}

\* C1: after controlDevices has handled a payload that decoded, each
\* actuator whose key is in the payload is ON iff the key's value is truthy,
\* and each actuator whose key is absent has the level it had before the call.
C1_CommandSetsOnlyPresentKeys ==
    (pc = "publish" /\ msg.kind = "json") =>
        \A k \in Keys :
            IF msg.body[k] # Absent
            THEN IsOn(pin, k) <=> Truthy(msg.body[k])
            ELSE pin[PinOf(k)] = prev[PinOf(k)]

\* {"fan": true} arrived with the fan off, the light on and the buzzer on:
\* the fan is on now, light and buzzer are as they were.
C1_Witness ==
    /\ pc = "publish"
    /\ msg = JsonMsg([NoBody EXCEPT !["fan"] = "true"])
    /\ ~IsOn(prev, "fan") /\ IsOn(prev, "light") /\ IsOn(prev, "buzzer")
    /\ IsOn(pin, "fan") /\ IsOn(pin, "light") /\ IsOn(pin, "buzzer")

\* C2: a payload that does not decode changes no pin and nothing else: the
\* step of mqttClient.loop() that dispatched it leaves the loop where a step
\* with no message leaves it, at the publish check with the same state.
C2_BadPayloadIgnored ==
    [][(pc = "mqtt" /\ msg'.kind = "bad") =>
          /\ pin' = pin
          /\ pc' = "publish"
          /\ UNCHANGED << connected, subscribed, attempts, now, lastPublish,
                          lastTry, doc, pubOk, pubIn, rd, tones >>]_vars

\* An undecodable payload arrived while fan and buzzer were on (set by
\* earlier commands): they still are.
C2_Witness ==
    /\ pc = "publish"
    /\ msg = BadMsg
    /\ IsOn(pin, "fan") /\ IsOn(pin, "buzzer")
    /\ pin = prev

\* C3: when autoControlDevices has run, the fan is ON iff the temperature it
\* read is a number > 35 and the light is ON iff the lux it read is < 300,
\* whatever the pins were before; running it again on the same readings
\* leaves the pins as they are.
C3_AutoControlLevelSet ==
    (pc = "delay") =>
        /\ rd.valid
        /\ IsOn(pin, "fan") <=> (rd.temp # NaN /\ rd.temp > 35)
        /\ IsOn(pin, "light") <=> (rd.lux < 300)
        /\ autoControlPins(pin, rd.temp, rd.lux) = pin

\* The fan had been switched on by a command in this iteration; the
\* temperature read failed and the lux is exactly 300: both are off.
C3_Witness ==
    /\ pc = "delay"
    /\ msg = JsonMsg([NoBody EXCEPT !["fan"] = "true"])
    /\ rd.temp = NaN /\ rd.lux = 300
    /\ ~IsOn(pin, "fan") /\ ~IsOn(pin, "light")

\* C4: calculateClassScore returns 100 minus the penalties whose condition
\* holds (co2 > 1000: 20, temp > 35: 15, humidity > 80: 10, lux < 300: 15,
\* noise > 70: 20); the result is in 0..100, is 20 when all five hold and
\* 100 when none does.
C4_ScoreIsHundredMinusPenalties ==
    (pc = "done" /\ arg.fn = "calculateClassScore") =>
        LET c1 == arg.co2 > 1000
            c2 == arg.temp # NaN /\ arg.temp > 35
            c3 == arg.humidity # NaN /\ arg.humidity > 80
            c4 == arg.lux < 300
            c5 == arg.noise > 70
            sum == (IF c1 THEN 20 ELSE 0) + (IF c2 THEN 15 ELSE 0)
                   + (IF c3 THEN 10 ELSE 0) + (IF c4 THEN 15 ELSE 0)
                   + (IF c5 THEN 20 ELSE 0)
        IN  /\ ret.score = 100 - sum
            /\ ret.score \in 0..100
            /\ (c1 /\ c2 /\ c3 /\ c4 /\ c5) => ret.score = 20
            /\ ~(c1 \/ c2 \/ c3 \/ c4 \/ c5) => ret.score = 100

\* All five conditions hold and the score is 20.
C4_Witness ==
    /\ pc = "done"
    /\ arg.fn = "calculateClassScore"
    /\ arg.co2 = 1001 /\ arg.temp = 36 /\ arg.humidity = 81
    /\ arg.lux = 299 /\ arg.noise = 71
    /\ ret.score = 20

\* C5: in a publish cycle whose temperature read is invalid the document has
\* no temperature member and the score carries no temperature penalty; the
\* same for humidity; every other member and penalty is as usual.
C5_InvalidClimateReadOmitted ==
    (pc = "auto" /\ Attempted(doc)) =>
        LET tOk == pubIn.temp # NaN
            hOk == pubIn.humidity # NaN
            sum == (IF doc["co2"] > 1000 THEN 20 ELSE 0)
                   + (IF tOk /\ pubIn.temp > 35 THEN 15 ELSE 0)
                   + (IF hOk /\ pubIn.humidity > 80 THEN 10 ELSE 0)
                   + (IF pubIn.lux < 300 THEN 15 ELSE 0)
                   + (IF doc["noise"] > 70 THEN 20 ELSE 0)
        IN  /\ ("temperature" \in DOMAIN doc) <=> tOk
            /\ tOk => doc["temperature"] = pubIn.temp
            /\ ("humidity" \in DOMAIN doc) <=> hOk
            /\ hOk => doc["humidity"] = pubIn.humidity
            /\ {"co2", "aqi", "light", "noise", "class_score", "status",
                "timestamp", "device_id"} \subseteq DOMAIN doc
            /\ doc["light"] = pubIn.lux
            /\ doc["class_score"] = 100 - sum

\* The temperature read failed and the humidity is 81: no temperature
\* member, humidity 81, and of the two only the humidity penalty in the score.
C5_Witness ==
    /\ pc = "auto"
    /\ Attempted(doc)
    /\ pubIn.temp = NaN /\ pubIn.humidity = 81
    /\ pubIn.mq = 0 /\ pubIn.lux = 300
    /\ "temperature" \notin DOMAIN doc
    /\ doc["humidity"] = 81
    /\ doc["class_score"] = 90

\* C6: for every raw gas reading the aqi is in 0..4, follows the buckets
\* ppm < 600 -> 0, < 1000 -> 1, < 1500 -> 2, < 2000 -> 3, else 4 (a ppm on a
\* boundary is in the upper bucket) and does not decrease as the ppm, or the
\* raw reading, grows.
C6_AqiBuckets ==
    (pc = "done" /\ arg.fn \in {"readGas", "calculateAQI"}) =>
        /\ ret.aqi \in 0..4
        /\ (ret.co2 < 600) <=> (ret.aqi = 0)
        /\ (ret.co2 >= 600 /\ ret.co2 < 1000) <=> (ret.aqi = 1)
        /\ (ret.co2 >= 1000 /\ ret.co2 < 1500) <=> (ret.aqi = 2)
        /\ (ret.co2 >= 1500 /\ ret.co2 < 2000) <=> (ret.aqi = 3)
        /\ (ret.co2 >= 2000) <=> (ret.aqi = 4)
        /\ (ret.co2 = 599 => ret.aqi = 0) /\ (ret.co2 = 600 => ret.aqi = 1)
        /\ (ret.co2 = 1999 => ret.aqi = 3) /\ (ret.co2 = 2000 => ret.aqi = 4)
        /\ arg.fn = "readGas" =>
              /\ ret.co2 \in 300..10000
              /\ (arg.x = 0 => ret.co2 = 300) /\ (arg.x = 4095 => ret.co2 = 10000)
              /\ arg.x > 0 => /\ readGas(arg.x - 1).co2 <= ret.co2
                              /\ readGas(arg.x - 1).aqi <= ret.aqi
        /\ (arg.fn = "calculateAQI" /\ arg.x > 0) =>
              calculateAQI(arg.x - 1) <= ret.aqi

\* The raw reading 127 maps to 600 ppm, on the first boundary: aqi 1.
C6_Witness ==
    /\ pc = "done"
    /\ arg.fn = "readGas"
    /\ arg.x = 127
    /\ ret.co2 = 600
    /\ ret.aqi = 1

C8_PublishGate ==
    [][(pc = "publish" /\ pc' = "auto") =>
          LET due == ((now - lastPublish) % ClockMod) >= 5000
          IN  /\ Attempted(doc') <=> due
              /\ Attempted(doc') =>
                    /\ lastPublish' = now
                    /\ doc'["timestamp"] = now
                    /\ lastTry >= 0 => ((now - lastTry) % ClockMod) >= 5000
              /\ ~Attempted(doc') => lastPublish' = lastPublish]_vars

\* A publish was attempted after the clock wrapped (now is below the
\* interval, so it is below the lastPublish it was compared with) and it
\* failed: lastPublish is now all the same.
C8_Witness ==
    /\ pc = "auto"
    /\ Attempted(doc)
    /\ ~pubOk
    /\ now < publishInterval
    /\ lastPublish = now
    /\ lastTry = now

\* The steps taken inside connectMQTT.
C9_Blocked ==
    [][(pc = "connect") =>
          /\ UNCHANGED << pin, lastPublish, lastTry, msg, doc, pubOk, rd, tones >>
          /\ pc' \in {"connect", "mqtt"}
          /\ pc' = "mqtt" => (connected /\ subscribed /\ connected' /\ subscribed')
          /\ (~connected /\ ~connected') =>
                (pc' = "connect" /\ now' # now /\ (now' - now) % ClockMod <= 2000 + TickMs)]_vars

\* C9: while connectMQTT runs no message is dispatched, nothing is published
\* and auto-control does not run; it returns only with the connection up and
\* the command topic subscribed on it; a failed attempt is followed by the
\* 2000 ms wait and another round, however many have failed; and if the
\* broker accepts a connection, the loop goes on to its next step.
C9_ConnectBlocksUntilConnected ==
    /\ C9_Blocked
    /\ BrokerAccepts => ((pc = "connect") ~> (pc = "mqtt"))

\* connectMQTT is still retrying after MaxAttempts failed attempts.
C9_Witness ==
    /\ pc = "connect"
    /\ ~connected
    /\ attempts = MaxAttempts

\* C10: at the end of every loop iteration the fan is ON iff the temperature
\* auto-control read is > 35 and the light is ON iff its lux is < 300,
\* whatever command was dispatched earlier in the iteration.
C10_CommandDoesNotOutliveIteration ==
    [][(pc = "delay" /\ pc' = "top" /\ msg.kind = "json") =>
          /\ IsOn(pin', "fan") <=> (rd.temp # NaN /\ rd.temp > 35)
          /\ IsOn(pin', "light") <=> (rd.lux < 300)]_vars

\* The iteration received {"fan": false, "light": true} and ends with the
\* fan on (36 degrees) and the light off (300 lux).
C10_Witness ==
    /\ pc = "delay"
    /\ msg = JsonMsg([NoBody EXCEPT !["fan"] = "false", !["light"] = "true"])
    /\ rd.temp = 36 /\ rd.lux = 300
    /\ IsOn(pin, "fan") /\ ~IsOn(pin, "light")

====
